---- MODULE Spec2Model ----
(***************************************************************************)
(* Model of CherryPick.run (src/src/backport.ts, class CherryPick) and of  *)
(* the collaborators it drives: the Git wrapper and the Github client      *)
(* (src/src/git.ts).  One action per awaited collaborator call; the        *)
(* synchronous code between two awaits belongs to the action of the call   *)
(* that precedes it.  The outcome of every external command or request is  *)
(* a nondeterministic input of the action that issues it.                  *)
(***************************************************************************)
EXTENDS Integers, Sequences, FiniteSets, TLC

\* ------------------------------------------------------------------ bounds
MaxCommits == 5
MaxMerges == 2

\* ------------------------------------------------------- program constants
PerPage == 100
FetchTargetDepth == 3
SquashFetchDepth == 2
RefNotFoundExit == 128
Created == 201
ReasonNewBranch == 3
ReasonCherryPick == 4

\* ------------------------------------------------------------ input values
PullNumber == 42
Null == 0
MergeSha == 1000
Blank == 0 - 1
Spaces == 0 - 2
NoLabel == ""
TriggerLabel == "cherry-pick to remote"
BaseRefs == {"master", "dev"}
BranchMaps == {[k \in {"master"} |-> "main"]}
PullLabelSets == {{"bug"}, {"bug", TriggerLabel}}
People ==
  {[merged_by |-> "", requested_reviewers |-> <<>>],
   [merged_by |-> "alice", requested_reviewers |-> <<"alice", "bob">>]}
FetchExitCodes == {0, 1, RefNotFoundExit}
ExitCodes == {0, 1}
HttpStatuses == {Created, 422}
upstream_name == "upstream"

NoPull ==
  [number |-> 0, commits |-> 0, labels |-> {}, base_ref |-> "",
   merge_commit_sha |-> Null, merged_by |-> "", requested_reviewers |-> <<>>]

\* reported commit counts: one commit, two, and the largest
CommitCounts == {1, 2, MaxCommits}

Pulls ==
  {[number |-> PullNumber, commits |-> n, labels |-> l, base_ref |-> b,
    merge_commit_sha |-> m, merged_by |-> p.merged_by,
    requested_reviewers |-> p.requested_reviewers] :
     n \in CommitCounts, l \in PullLabelSets, b \in BaseRefs,
     m \in {Null, MergeSha}, p \in People}

NoFacts == [parents |-> 0, parentAssoc |-> FALSE, selfAssoc |-> FALSE]
Facts == [parents : {1, 2}, parentAssoc : BOOLEAN, selfAssoc : BOOLEAN]

VARIABLES
  config,                  \* Config handed to the constructor
  pc,                      \* position of run()
  mainpr,                  \* const mainpr
  target,                  \* const target
  commitShas,              \* const commitShas
  strategy,                \* value the switch dispatches on
  facts,                   \* what the host reports to mergeStrategy
  commitShasToCherryPick,  \* let commitShasToCherryPick
  mergeCommitShas,         \* const mergeCommitShas
  successByTarget,         \* Map<string, boolean>, as a sequence of entries
  message,                 \* const message of the failure site being handled
  calls,                   \* collaborator calls issued so far, in order
  comments,                \* createComment requests and their fate
  outputs,                 \* core.setOutput pairs emitted by createOutput
  failed,                  \* core.setFailed messages
  unhandled                \* promise rejections nobody handles

vars ==
  <<config, pc, mainpr, target, commitShas, strategy, facts,
    commitShasToCherryPick, mergeCommitShas, successByTarget, message,
    calls, comments, outputs, failed, unhandled>>

\* ---------------------------------------------------------------- helpers
Min(a, b) == IF a < b THEN a ELSE b

CeilDiv(a, b) == (a + b - 1) \div b

RECURSIVE Filter(_, _)
\* Array.prototype.filter with the predicate "not a member of drop"
Filter(s, drop) ==
  IF s = <<>> THEN <<>>
  ELSE IF Head(s) \in drop THEN Filter(Tail(s), drop)
       ELSE <<Head(s)>> \o Filter(Tail(s), drop)

Range(s) == {s[i] : i \in 1..Len(s)}

\* a number as it appears in a template string
Str(n) == ToString(n)

\* a request to the host: operation, argument and how it ended
Call(op, arg, res) ==
  [op |-> op, arg |-> arg, res |-> res, exitCode |-> 0, stdout |-> <<>>]

\* a git command run by the driver: what execa reported and how the driver
\* method ended
Exec(op, arg, res, exitCode, stdout) ==
  [op |-> op, arg |-> arg, res |-> res, exitCode |-> exitCode, stdout |-> stdout]

\* ------------------------------------------------------------ Github client
\* the commits the host lists for the pull request, oldest first
HostCommits(pull) == [i \in 1..pull.commits |-> i]

ListCommitsPage(pull, page) ==
  SubSeq(HostCommits(pull), (page - 1) * PerPage + 1,
         Min(page * PerPage, pull.commits))

RECURSIVE GetCommitsFrom_Exclusive(_, _)
\* the page loop with "<" for "<=": the last page is never requested
GetCommitsFrom_Exclusive(pull, page) ==
  IF page >= CeilDiv(pull.commits, PerPage) THEN <<>>
  ELSE ListCommitsPage(pull, page) \o GetCommitsFrom_Exclusive(pull, page + 1)

RECURSIVE GetCommitsFrom(_, _)
GetCommitsFrom(pull, page) ==
  IF page > CeilDiv(pull.commits, PerPage) THEN <<>>
  ELSE ListCommitsPage(pull, page) \o GetCommitsFrom(pull, page + 1)

getCommits(pull) == GetCommitsFrom(pull, 1)

getMergeCommitSha(pull) == pull.merge_commit_sha

\* the association test with "||" for "&&"
isSquashed_Either(pull, f) ==
  IF getMergeCommitSha(pull) = Null THEN FALSE
  ELSE ~(f.parentAssoc \/ f.selfAssoc)

isSquashed(pull, f) ==
  IF getMergeCommitSha(pull) = Null THEN FALSE
  ELSE ~(f.parentAssoc /\ f.selfAssoc)

\* the classification without the test of the parent count
mergeStrategy_NoParents(pull, merge_commit_sha, f) ==
  IF merge_commit_sha = Null THEN "UNKNOWN"
  ELSE IF isSquashed(pull, f) THEN "SQUASHED"
  ELSE "REBASED"

mergeStrategy(pull, merge_commit_sha, f) ==
  IF merge_commit_sha = Null THEN "UNKNOWN"
  ELSE IF f.parents > 1 THEN "MERGECOMMIT"
  ELSE IF isSquashed(pull, f) THEN "SQUASHED"
  ELSE "REBASED"

\* Git.fetch that takes every status from 128 on for a missing ref
GitFetch_FromRefNotFound(exitCode) ==
  IF exitCode >= RefNotFoundExit THEN "GitRefNotFoundError"
  ELSE IF exitCode # 0 THEN "Error"
  ELSE "ok"

\* --------------------------------------------------------------- Git driver
\* result of Git.fetch for the exit status of "git fetch"
GitFetch(exitCode) ==
  IF exitCode = RefNotFoundExit THEN "GitRefNotFoundError"
  ELSE IF exitCode # 0 THEN "Error"
  ELSE "ok"

\* result of add_remote, checkout, cherryPick, push, findMergeCommits
GitRun(exitCode) == IF exitCode # 0 THEN "Error" ELSE "ok"

\* stdout of "git rev-list --merges": newest first, "" when there is none
RECURSIVE RevListMerges(_, _)
RevListMerges(shas, merges) ==
  IF shas = <<>> THEN <<>>
  ELSE RevListMerges(Tail(shas), merges) \o
       (IF Head(shas) \in merges THEN <<Head(shas)>> ELSE <<>>)

RevListStdout(shas, merges) ==
  IF RevListMerges(shas, merges) = <<>> THEN <<Blank>>
  ELSE RevListMerges(shas, merges)

\* sha.trim() for a line of stdout
Trim(sha) == IF sha = Spaces THEN Blank ELSE sha

\* stdout.split("\n").filter(...) that keeps every line
findMergeCommits_KeepAll(stdout) == stdout

\* stdout.split("\n").filter((sha) => sha.trim() !== "")
findMergeCommits(stdout) == SelectSeq(stdout, LAMBDA sha : Trim(sha) # Blank)

\* commits of the range sha~n..sha, oldest first
findCommitsInRange(sha, n) == [i \in 1..n |-> sha - n + i]

\* ------------------------------------------------------------- orchestrator
\* a resolution that ignores the alias table
ResolveTarget_Identity(branch_map, ref) == ref

\* branch_map.get(mainpr.base.ref) ?? mainpr.base.ref
ResolveTarget(branch_map, ref) ==
  IF ref \in DOMAIN branch_map THEN branch_map[ref] ELSE ref

\* the gate that only ends the run of a pull request without any label
LabelGateAborts_NoLabels(pull, trigger_label) ==
  /\ trigger_label # NoLabel
  /\ pull.labels = {}

\* TRUE when the label gate ends the run
LabelGateAborts(pull, trigger_label) ==
  /\ trigger_label # NoLabel
  /\ ~(\E l \in pull.labels : l = trigger_label)

\* the filter that drops only the first merge commit reported
SkipMergeCommits_First(shas, merges) == Filter(shas, {Head(merges)})

SkipMergeCommits(shas, merges) == Filter(shas, Range(merges))

\* the merged check without its return
NextAfterMergedCheck_NoReturn(merged, pull, trigger_label) ==
  IF LabelGateAborts(pull, trigger_label) THEN "done" ELSE "fetchHead"

\* where run() continues after the merged check and the label gate
NextAfterMergedCheck(merged, pull, trigger_label) ==
  IF ~merged THEN "done"
  ELSE IF LabelGateAborts(pull, trigger_label) THEN "done"
  ELSE "fetchHead"

\* the sets of merge commits the scan can report for a commit list
MergeSets(shas) == {m \in SUBSET Range(shas) : Cardinality(m) <= MaxMerges}

RECURSIVE MapSet_KeepFirst(_, _, _)
\* a set that leaves the value of a key already present alone
MapSet_KeepFirst(m, k, v) ==
  IF m = <<>> THEN <<[key |-> k, val |-> v]>>
  ELSE IF Head(m).key = k THEN m
  ELSE <<Head(m)>> \o MapSet_KeepFirst(Tail(m), k, v)

\* Map.prototype.set on an insertion-ordered map
RECURSIVE MapSet(_, _, _)
MapSet(m, k, v) ==
  IF m = <<>> THEN <<[key |-> k, val |-> v]>>
  ELSE IF Head(m).key = k THEN <<[key |-> k, val |-> v]>> \o Tail(m)
  ELSE <<Head(m)>> \o MapSet(Tail(m), k, v)

\* `${target}=${result}\n`, the line of one map entry
OutputLine(e) == <<e.key, "=", IF e.val THEN "true" ELSE "false">>

\* the reduce over the entries; a string of lines is the sequence of them
RECURSIVE ByTargetOutput(_, _)
ByTargetOutput(i, entries) ==
  IF entries = <<>> THEN i
  ELSE ByTargetOutput(i \o <<OutputLine(Head(entries))>>, Tail(entries))

\* createOutput without the negation of anyTargetFailed
createOutput_AnyFailed(m) ==
  [was_successful |-> (\E i \in 1..Len(m) : m[i].val = FALSE),
   was_successful_by_target |-> ByTargetOutput(<<>>, m)]

\* createOutput with a reduce that puts each line before the accumulator
createOutput_Prepend(m) ==
  [was_successful |-> ~(\E i \in 1..Len(m) : m[i].val = FALSE),
   was_successful_by_target |->
     [i \in 1..Len(m) |-> OutputLine(m[Len(m) + 1 - i])]]

createOutput(m) ==
  [was_successful |-> ~(\E i \in 1..Len(m) : m[i].val = FALSE),
   was_successful_by_target |-> ByTargetOutput(<<>>, m)]

\* a createComment request that has been issued and not yet answered
Issue(cs, body, awaited) ==
  Append(cs, [body |-> body, awaited |-> awaited, status |-> "pending"])

\* the answered form of the request issued last
Answer(cs, body, ok) ==
  Append(cs, [body |-> body, awaited |-> TRUE,
              status |-> IF ok THEN "posted" ELSE "rejected"])

Body(kind, arg) == [kind |-> kind, arg |-> arg]


\* message of an Error raised by a collaborator call
ErrorOf(op) == Body("error", op)

UnexpectedMessage == Body("unexpected", "")

\* the top-level catch of run(): setFailed(error.message)
TopCatch(e) ==
  /\ failed' = Append(failed, e)
  /\ pc' = "done"

\* the catch without successByTarget.set(target, false)
TargetCatch_NoRecord(e) ==
  /\ message' = e
  /\ pc' = "commentCatch"
  /\ UNCHANGED successByTarget

\* the catch of the per-target try block: record Failed, then comment
TargetCatch(e) ==
  /\ successByTarget' = MapSet(successByTarget, target, FALSE)
  /\ message' = e
  /\ pc' = "commentCatch"

Init ==
  /\ config \in [merge_commits : {"fail", "skip"},
                 trigger_label : {NoLabel, TriggerLabel},
                 branch_map : BranchMaps,
                 upstream_repo : {"acme/up"}]
  /\ pc = "getPullRequest"
  /\ mainpr = NoPull
  /\ target = ""
  /\ commitShas = <<>>
  /\ strategy = ""
  /\ facts = NoFacts
  /\ commitShasToCherryPick = <<>>
  /\ mergeCommitShas = <<>>
  /\ successByTarget = <<>>
  /\ message = Body("", "")
  /\ calls = <<>>
  /\ comments = <<>>
  /\ outputs = <<>>
  /\ failed = <<>>
  /\ unhandled = 0

\* const mainpr = await this.github.getPullRequest(pull_number)
GetPullRequest ==
  /\ pc = "getPullRequest"
  /\ \E ok \in BOOLEAN :
       /\ calls' = Append(calls, Call("getPullRequest", PullNumber,
                                      IF ok THEN "ok" ELSE "Error"))
       /\ IF ok
          THEN /\ \E p \in Pulls : mainpr' = p
               /\ pc' = "isMerged"
               /\ UNCHANGED failed
          ELSE /\ TopCatch(ErrorOf("getPullRequest"))
               /\ UNCHANGED mainpr
  /\ UNCHANGED <<config, target, commitShas, strategy, facts,
                 commitShasToCherryPick, mergeCommitShas, successByTarget,
                 message, comments, outputs, unhandled>>

\* the merged check, the label gate and the target resolution
IsMerged ==
  /\ pc = "isMerged"
  /\ \E res \in {"true", "false", "Error"} :
       /\ calls' = Append(calls, Call("isMerged", mainpr.number, res))
       /\ IF res = "Error"
          THEN /\ TopCatch(ErrorOf("isMerged"))
               /\ UNCHANGED <<comments, target>>
          ELSE /\ comments' =
                    IF res = "false"
                    THEN Issue(comments, Body("not_merged", ""), FALSE)
                    ELSE comments
               /\ pc' = NextAfterMergedCheck(res = "true", mainpr,
                                             config.trigger_label)
               /\ target' =
                    IF pc' = "done" THEN target
                    ELSE ResolveTarget(config.branch_map, mainpr.base_ref)
               /\ UNCHANGED failed
  /\ UNCHANGED <<config, mainpr, commitShas, strategy, facts,
                 commitShasToCherryPick, mergeCommitShas, successByTarget,
                 message, outputs, unhandled>>

\* await this.git.fetch(`refs/pull/${pull_number}/head`, pwd, commits + 1)
FetchHead ==
  /\ pc = "fetchHead"
  /\ \E code \in FetchExitCodes :
       /\ calls' = Append(calls,
            Exec("fetch", <<"pull_head", mainpr.commits + 1, "origin">>,
                 GitFetch(code), code, <<>>))
       /\ IF GitFetch(code) = "ok"
          THEN pc' = "getCommits" /\ UNCHANGED failed
          ELSE TopCatch(ErrorOf("fetch"))
  /\ UNCHANGED <<config, mainpr, target, commitShas, strategy, facts,
                 commitShasToCherryPick, mergeCommitShas, successByTarget,
                 message, comments, outputs, unhandled>>

\* const commitShas = await this.github.getCommits(mainpr)
GetCommits ==
  /\ pc = "getCommits"
  /\ \E ok \in BOOLEAN :
       /\ calls' = Append(calls, Call("getCommits", mainpr.number,
                                      IF ok THEN "ok" ELSE "Error"))
       /\ IF ok
          THEN /\ commitShas' = getCommits(mainpr)
               /\ pc' = "mergeStrategy"
               /\ UNCHANGED failed
          ELSE /\ TopCatch(ErrorOf("getCommits"))
               /\ UNCHANGED commitShas
  /\ UNCHANGED <<config, mainpr, target, strategy, facts,
                 commitShasToCherryPick, mergeCommitShas, successByTarget,
                 message, comments, outputs, unhandled>>

\* getMergeCommitSha, mergeStrategy and the dispatch of the switch; what the
\* host reported is local to the call and gone with the next step
MergeStrategy ==
  /\ pc = "mergeStrategy"
  /\ \E ok \in BOOLEAN :
     \E f \in (IF getMergeCommitSha(mainpr) = Null THEN {NoFacts} ELSE Facts) :
       /\ calls' = Append(calls, Call("mergeStrategy", mainpr.number,
                                      IF ok THEN "ok" ELSE "Error"))
       /\ IF ok
          THEN /\ facts' = f
               /\ strategy' = mergeStrategy(mainpr, getMergeCommitSha(mainpr), f)
               /\ IF strategy' = "SQUASHED"
                  THEN pc' = "fetchSquashed" /\ UNCHANGED commitShasToCherryPick
                  ELSE IF strategy' = "REBASED"
                  THEN pc' = "fetchRebased" /\ UNCHANGED commitShasToCherryPick
                  ELSE /\ commitShasToCherryPick' = commitShas
                       /\ pc' = "findMergeCommits"
               /\ UNCHANGED failed
          ELSE /\ getMergeCommitSha(mainpr) # Null
               /\ TopCatch(ErrorOf("mergeStrategy"))
               /\ UNCHANGED <<facts, strategy, commitShasToCherryPick>>
  /\ UNCHANGED <<config, mainpr, target, commitShas, mergeCommitShas,
                 successByTarget, message, comments, outputs, unhandled>>

\* case SQUASHED: fetch the squashed commit and select it alone
FetchSquashed ==
  /\ pc = "fetchSquashed"
  /\ \E code \in FetchExitCodes :
       /\ calls' = Append(calls,
            Exec("fetch", <<"merge_commit", SquashFetchDepth, "origin">>,
                 GitFetch(code), code, <<>>))
       /\ IF GitFetch(code) = "ok"
          THEN /\ commitShasToCherryPick' = <<getMergeCommitSha(mainpr)>>
               /\ pc' = "findMergeCommits"
               /\ UNCHANGED failed
          ELSE /\ TopCatch(ErrorOf("fetch"))
               /\ UNCHANGED commitShasToCherryPick
  /\ facts' = NoFacts
  /\ UNCHANGED <<config, mainpr, target, commitShas, strategy,
                 mergeCommitShas, successByTarget, message, comments,
                 outputs, unhandled>>

\* case REBASED: fetch the merge commit with the depth of the pull request
FetchRebased ==
  /\ pc = "fetchRebased"
  /\ \E code \in FetchExitCodes :
       /\ calls' = Append(calls,
            Exec("fetch", <<"merge_commit", mainpr.commits + 1, "origin">>,
                 GitFetch(code), code, <<>>))
       /\ IF GitFetch(code) = "ok"
          THEN pc' = "findCommitsInRange" /\ UNCHANGED failed
          ELSE TopCatch(ErrorOf("fetch"))
  /\ facts' = NoFacts
  /\ UNCHANGED <<config, mainpr, target, commitShas, strategy,
                 commitShasToCherryPick, mergeCommitShas, successByTarget,
                 message, comments, outputs, unhandled>>

\* case REBASED: resolve merge_commit_sha~commits..merge_commit_sha
FindCommitsInRange ==
  /\ pc = "findCommitsInRange"
  /\ \E code \in ExitCodes :
       /\ calls' = Append(calls,
            Exec("findCommitsInRange",
                 <<getMergeCommitSha(mainpr), mainpr.commits>>, GitRun(code),
                 code, <<>>))
       /\ IF GitRun(code) = "ok"
          THEN /\ commitShasToCherryPick' =
                    findCommitsInRange(getMergeCommitSha(mainpr), mainpr.commits)
               /\ pc' = "findMergeCommits"
               /\ UNCHANGED failed
          ELSE /\ TopCatch(ErrorOf("findCommitsInRange"))
               /\ UNCHANGED commitShasToCherryPick
  /\ UNCHANGED <<config, mainpr, target, commitShas, strategy, facts,
                 mergeCommitShas, successByTarget, message, comments,
                 outputs, unhandled>>

\* the merge-commit scan and the merge_commits policy
FindMergeCommits ==
  /\ pc = "findMergeCommits"
  /\ \E code \in ExitCodes : \E merges \in MergeSets(commitShas) :
       /\ calls' = Append(calls,
            Exec("findMergeCommits", commitShas, GitRun(code), code,
                 RevListStdout(commitShas, merges)))
       /\ IF GitRun(code) # "ok"
          THEN /\ merges = {}
               /\ TopCatch(ErrorOf("findMergeCommits"))
               /\ UNCHANGED <<mergeCommitShas, commitShasToCherryPick, comments>>
          ELSE /\ mergeCommitShas' =
                    findMergeCommits(RevListStdout(commitShas, merges))
               /\ UNCHANGED failed
               /\ IF Len(mergeCommitShas') > 0 /\ config.merge_commits = "fail"
                  THEN /\ comments' =
                            Issue(comments, Body("merge_commits", ""), FALSE)
                       /\ pc' = "done"
                       /\ UNCHANGED commitShasToCherryPick
                  ELSE /\ commitShasToCherryPick' =
                            IF Len(mergeCommitShas') > 0
                               /\ config.merge_commits = "skip"
                            THEN SkipMergeCommits(commitShas, mergeCommitShas')
                            ELSE commitShasToCherryPick
                       /\ pc' = "addRemote"
                       /\ UNCHANGED comments
  /\ facts' = NoFacts
  /\ UNCHANGED <<config, mainpr, target, commitShas, strategy,
                 successByTarget, message, outputs, unhandled>>

\* try { await this.git.add_remote(...) } catch { set false; comment }
AddRemote ==
  /\ pc = "addRemote"
  /\ \E code \in ExitCodes :
       /\ calls' = Append(calls,
            Exec("add_remote", <<config.upstream_repo, upstream_name>>,
                 GitRun(code), code, <<>>))
       /\ IF GitRun(code) = "ok"
          THEN /\ pc' = "fetchUpstream"
               /\ UNCHANGED <<successByTarget, message>>
          ELSE /\ successByTarget' = MapSet(successByTarget, target, FALSE)
               /\ message' = ErrorOf("add_remote")
               /\ pc' = "commentAddRemote"
  /\ UNCHANGED <<config, mainpr, target, commitShas, strategy, facts,
                 commitShasToCherryPick, mergeCommitShas, comments, outputs,
                 failed, unhandled>>

\* the awaited createComment in the catch of add_remote
CommentAddRemote ==
  /\ pc = "commentAddRemote"
  /\ \E ok \in BOOLEAN :
       /\ comments' = Answer(comments, message, ok)
       /\ IF ok
          THEN pc' = "fetchUpstream" /\ UNCHANGED failed
          ELSE TopCatch(ErrorOf("createComment"))
  /\ UNCHANGED <<config, mainpr, target, commitShas, strategy, facts,
                 commitShasToCherryPick, mergeCommitShas, successByTarget,
                 message, calls, outputs, unhandled>>

\* one of the two fetches of the target branch and the catch they share
FetchTarget(at, remote, next) ==
  /\ pc = at
  /\ \E code \in FetchExitCodes :
       /\ calls' = Append(calls,
            Exec("fetch", <<target, FetchTargetDepth, remote>>,
                 GitFetch(code), code, <<>>))
       /\ IF GitFetch(code) = "ok"
          THEN /\ pc' = next
               /\ UNCHANGED <<successByTarget, message, failed>>
          ELSE IF GitFetch(code) = "GitRefNotFoundError"
          THEN /\ successByTarget' = MapSet(successByTarget, target, FALSE)
               /\ message' = Body("fetch_target", target)
               /\ pc' = "commentFetchTarget"
               /\ UNCHANGED failed
          ELSE /\ failed' = <<UnexpectedMessage, ErrorOf("fetch")>>
               /\ pc' = "done"
               /\ UNCHANGED <<successByTarget, message>>
  /\ UNCHANGED <<config, mainpr, target, commitShas, strategy, facts,
                 commitShasToCherryPick, mergeCommitShas, comments, outputs,
                 unhandled>>

FetchUpstream == FetchTarget("fetchUpstream", upstream_name, "fetchOrigin")

FetchOrigin == FetchTarget("fetchOrigin", "origin", "checkout")

\* the awaited createComment in the catch of the target fetch
CommentFetchTarget ==
  /\ pc = "commentFetchTarget"
  /\ \E ok \in BOOLEAN :
       /\ comments' = Answer(comments, message, ok)
       /\ IF ok
          THEN pc' = "checkout" /\ UNCHANGED failed
          ELSE TopCatch(ErrorOf("createComment"))
  /\ UNCHANGED <<config, mainpr, target, commitShas, strategy, facts,
                 commitShasToCherryPick, mergeCommitShas, successByTarget,
                 message, calls, outputs, unhandled>>

\* the name built from the base ref of the pull request
branchname_BaseRef ==
  <<"cherry-pick", mainpr.number, mainpr.base_ref, upstream_name>>

branchname == <<"cherry-pick", mainpr.number, target, upstream_name>>

\* a failure site without successByTarget.set(target, false)
FailureSite_NoRecord(body) ==
  /\ message' = body
  /\ pc' = "commentFailure"
  /\ UNCHANGED successByTarget

\* a failure site of the per-target block: record Failed, then comment
FailureSite(body) ==
  /\ successByTarget' = MapSet(successByTarget, target, FALSE)
  /\ message' = body
  /\ pc' = "commentFailure"

\* await this.git.checkout(branchname, target, upstream_name, pwd)
Checkout ==
  /\ pc = "checkout"
  /\ \E code \in ExitCodes :
       /\ calls' = Append(calls,
            Exec("checkout", <<branchname, target, upstream_name>>,
                 GitRun(code), code, <<>>))
       /\ IF GitRun(code) = "ok"
          THEN /\ pc' = "cherryPick"
               /\ UNCHANGED <<successByTarget, message>>
          ELSE FailureSite(Body("script_failure", ReasonNewBranch))
  /\ UNCHANGED <<config, mainpr, target, commitShas, strategy, facts,
                 commitShasToCherryPick, mergeCommitShas, comments, outputs,
                 failed, unhandled>>

\* Git.cherryPick that raises before it aborts
GitCherryPick_NoAbort(shas, code, abortCode) ==
  <<Exec("cherryPick", shas, GitRun(code), code, <<>>)>>

\* Git.cherryPick that runs the command once more after the abort
GitCherryPick_Retry(shas, code, abortCode) ==
  IF code # 0
  THEN <<Exec("cherryPick", shas, "Error", code, <<>>),
         Exec("cherryPickAbort", <<>>,
              IF abortCode # 0 THEN "ignored" ELSE "ok", abortCode, <<>>),
         Exec("cherryPick", shas, "Error", code, <<>>)>>
  ELSE <<Exec("cherryPick", shas, "ok", code, <<>>)>>

\* Git.cherryPick: on a non-zero status abort, then raise; the status of
\* the abort is read by nobody
GitCherryPick(shas, code, abortCode) ==
  IF code # 0
  THEN <<Exec("cherryPick", shas, "Error", code, <<>>),
         Exec("cherryPickAbort", <<>>,
              IF abortCode # 0 THEN "ignored" ELSE "ok", abortCode, <<>>)>>
  ELSE <<Exec("cherryPick", shas, "ok", code, <<>>)>>

\* await this.git.cherryPick(commitShasToCherryPick, pwd)
CherryPick ==
  /\ pc = "cherryPick"
  /\ \E code \in ExitCodes : \E abortCode \in ExitCodes :
       /\ calls' = calls \o GitCherryPick(commitShasToCherryPick, code, abortCode)
       /\ IF GitRun(code) = "ok"
          THEN /\ pc' = "push"
               /\ UNCHANGED <<successByTarget, message>>
          ELSE FailureSite(Body("script_failure", ReasonCherryPick))
  /\ UNCHANGED <<config, mainpr, target, commitShas, strategy, facts,
                 commitShasToCherryPick, mergeCommitShas, comments, outputs,
                 failed, unhandled>>

\* Git.push: raises on a non-zero status, returns the status otherwise
GitPush(exitCode) ==
  [thrown |-> exitCode # 0, value |-> exitCode]

\* const pushExitCode = await this.git.push(...); if (pushExitCode != 0) ...
Push ==
  /\ pc = "push"
  /\ \E code \in ExitCodes :
       /\ calls' = Append(calls,
            Exec("push", <<branchname, upstream_name>>,
                 IF GitPush(code).thrown THEN "Error" ELSE "ok", code, <<>>))
       /\ IF GitPush(code).thrown
          THEN TargetCatch(ErrorOf("push"))
          ELSE IF GitPush(code).value # 0
          THEN FailureSite(Body("push_failure", GitPush(code).value))
          ELSE /\ pc' = "createPR"
               /\ UNCHANGED <<successByTarget, message>>
  /\ UNCHANGED <<config, mainpr, target, commitShas, strategy, facts,
                 commitShasToCherryPick, mergeCommitShas, comments, outputs,
                 failed, unhandled>>

NewPrNumber == 7

\* what the log records for a response or a raised error
Outcome(thrown, status) ==
  IF thrown THEN "Error" ELSE IF status = Created THEN "created" ELSE "rejected"

\* const new_pr_response = await this.github.createPR({...})
CreatePR ==
  /\ pc = "createPR"
  /\ \E thrown \in BOOLEAN : \E status \in HttpStatuses :
       /\ calls' = Append(calls,
            Call("createPR", [head |-> branchname, base |-> target],
                 Outcome(thrown, status)))
       /\ IF thrown
          THEN TargetCatch(ErrorOf("createPR"))
          ELSE IF status # Created
          THEN FailureSite(Body("create_pr_failed", status))
          ELSE /\ pc' = "requestReviewers"
               /\ UNCHANGED <<successByTarget, message>>
  /\ UNCHANGED <<config, mainpr, target, commitShas, strategy, facts,
                 commitShasToCherryPick, mergeCommitShas, comments, outputs,
                 failed, unhandled>>

\* [merger, ...requested_reviewers].filter(typeof reviewer === "string")
Reviewers(pull) ==
  (IF pull.merged_by = "" THEN <<>> ELSE <<pull.merged_by>>)
    \o pull.requested_reviewers

\* await this.github.requestReviewers(reviewRequest); set(target, true)
RequestReviewers ==
  /\ pc = "requestReviewers"
  /\ \E thrown \in BOOLEAN : \E status \in HttpStatuses :
       /\ calls' = Append(calls,
            Call("requestReviewers",
                 [pull_number |-> NewPrNumber, reviewers |-> Reviewers(mainpr)],
                 Outcome(thrown, status)))
       /\ IF thrown
          THEN TargetCatch(ErrorOf("requestReviewers"))
          ELSE /\ successByTarget' = MapSet(successByTarget, target, TRUE)
               /\ message' = Body("success", NewPrNumber)
               /\ pc' = "commentSuccess"
  /\ UNCHANGED <<config, mainpr, target, commitShas, strategy, facts,
                 commitShasToCherryPick, mergeCommitShas, comments, outputs,
                 failed, unhandled>>

\* the success comment, then createOutput at the end of the try block
CommentSuccess ==
  /\ pc = "commentSuccess"
  /\ \E ok \in BOOLEAN :
       /\ comments' = Answer(comments, message, ok)
       /\ IF ok
          THEN /\ outputs' = Append(outputs, createOutput(successByTarget))
               /\ pc' = "done"
               /\ UNCHANGED <<successByTarget, message>>
          ELSE /\ TargetCatch(ErrorOf("createComment"))
               /\ UNCHANGED outputs
  /\ UNCHANGED <<config, mainpr, target, commitShas, strategy, facts,
                 commitShasToCherryPick, mergeCommitShas, calls, failed,
                 unhandled>>

\* the failure-site comment without createOutput and return
CommentFailure_NoReturn ==
  /\ pc = "commentFailure"
  /\ \E ok \in BOOLEAN :
       /\ comments' = Answer(comments, message, ok)
       /\ IF ok
          THEN /\ pc' = "requestReviewers"
               /\ UNCHANGED <<successByTarget, message>>
          ELSE TargetCatch(ErrorOf("createComment"))
  /\ UNCHANGED <<config, mainpr, target, commitShas, strategy, facts,
                 commitShasToCherryPick, mergeCommitShas, calls, outputs,
                 failed, unhandled>>

\* the comment of a failure site, then createOutput and return
CommentFailure ==
  /\ pc = "commentFailure"
  /\ \E ok \in BOOLEAN :
       /\ comments' = Answer(comments, message, ok)
       /\ IF ok
          THEN /\ outputs' = Append(outputs, createOutput(successByTarget))
               /\ pc' = "done"
               /\ UNCHANGED <<successByTarget, message>>
          ELSE /\ TargetCatch(ErrorOf("createComment"))
               /\ UNCHANGED outputs
  /\ UNCHANGED <<config, mainpr, target, commitShas, strategy, facts,
                 commitShasToCherryPick, mergeCommitShas, calls, failed,
                 unhandled>>

\* the per-target catch with createOutput ahead of its comment
CommentCatch_OutputFirst ==
  /\ pc = "commentCatch"
  /\ \E ok \in BOOLEAN :
       /\ comments' = Answer(comments, message, ok)
       /\ outputs' = Append(outputs, createOutput(successByTarget))
       /\ IF ok
          THEN pc' = "done" /\ UNCHANGED failed
          ELSE TopCatch(ErrorOf("createComment"))
  /\ UNCHANGED <<config, mainpr, target, commitShas, strategy, facts,
                 commitShasToCherryPick, mergeCommitShas, successByTarget,
                 message, calls, unhandled>>

\* the comment of the per-target catch, then createOutput and return
CommentCatch ==
  /\ pc = "commentCatch"
  /\ \E ok \in BOOLEAN :
       /\ comments' = Answer(comments, message, ok)
       /\ IF ok
          THEN /\ outputs' = Append(outputs, createOutput(successByTarget))
               /\ pc' = "done"
               /\ UNCHANGED failed
          ELSE /\ TopCatch(ErrorOf("createComment"))
               /\ UNCHANGED outputs
  /\ UNCHANGED <<config, mainpr, target, commitShas, strategy, facts,
                 commitShasToCherryPick, mergeCommitShas, successByTarget,
                 message, calls, unhandled>>

\* a createComment that was not awaited is answered by the host
SettleComment ==
  /\ \E i \in 1..Len(comments) : \E ok \in BOOLEAN :
       /\ comments[i].status = "pending"
       /\ comments' = [comments EXCEPT
                         ![i].status = IF ok THEN "posted" ELSE "rejected"]
       /\ unhandled' = IF ok THEN unhandled ELSE unhandled + 1
  /\ UNCHANGED <<config, pc, mainpr, target, commitShas, strategy, facts,
                 commitShasToCherryPick, mergeCommitShas, successByTarget,
                 message, calls, outputs, failed>>

Next ==
  \/ GetPullRequest
  \/ IsMerged
  \/ FetchHead
  \/ GetCommits
  \/ MergeStrategy
  \/ FetchSquashed
  \/ FetchRebased
  \/ FindCommitsInRange
  \/ FindMergeCommits
  \/ AddRemote
  \/ CommentAddRemote
  \/ FetchUpstream
  \/ FetchOrigin
  \/ CommentFetchTarget
  \/ Checkout
  \/ CherryPick
  \/ Push
  \/ CreatePR
  \/ RequestReviewers
  \/ CommentSuccess
  \/ CommentFailure
  \/ CommentCatch
  \/ SettleComment

Spec == Init /\ [][Next]_vars

\* ------------------------------------------- createOutput on its own
TargetNames == {"main", "dev", "release"}

\* before any target has been handled
InitOutput ==
  /\ config = [merge_commits |-> "skip", trigger_label |-> NoLabel,
               branch_map |-> CHOOSE b \in BranchMaps : TRUE,
               upstream_repo |-> "acme/up"]
  /\ pc = "recordOutcome"
  /\ mainpr = NoPull
  /\ target = ""
  /\ commitShas = <<>>
  /\ strategy = ""
  /\ facts = NoFacts
  /\ commitShasToCherryPick = <<>>
  /\ mergeCommitShas = <<>>
  /\ successByTarget = <<>>
  /\ message = Body("", "")
  /\ calls = <<>>
  /\ comments = <<>>
  /\ outputs = <<>>
  /\ failed = <<>>
  /\ unhandled = 0

\* successByTarget.set(target, result) for some target and result
RecordOutcome ==
  /\ pc = "recordOutcome"
  /\ \E k \in TargetNames : \E v \in BOOLEAN :
       successByTarget' = MapSet(successByTarget, k, v)
  /\ UNCHANGED <<config, pc, mainpr, target, commitShas, strategy, facts,
                 commitShasToCherryPick, mergeCommitShas, message, calls,
                 comments, outputs, failed, unhandled>>

\* this.createOutput(successByTarget)
EmitOutput ==
  /\ pc = "recordOutcome"
  /\ outputs' = Append(outputs, createOutput(successByTarget))
  /\ pc' = "done"
  /\ UNCHANGED <<config, mainpr, target, commitShas, strategy, facts,
                 commitShasToCherryPick, mergeCommitShas, successByTarget,
                 message, calls, comments, failed, unhandled>>

NextOutput ==
  \/ RecordOutcome
  \/ EmitOutput

SpecOutput == InitOutput /\ [][NextOutput]_vars

\* ------------------------------------------------ the git driver on its own
\* exit statuses of a git command: success, plain failures, 128 and its
\* neighbours, the largest
GitExitCodes == {0, 1, 2, 127, RefNotFoundExit, 129, 255}

FetchRefs == {"main", "refs/pull/42/head"}

FetchDepths == {FetchTargetDepth, SquashFetchDepth}

Remotes == {"origin", upstream_name}

\* commit lists handed to the driver, not all of them ascending
ShaLists == {<<7>>, <<8, 7>>, <<7, 8, 9>>}

StdoutLines == {Blank, Spaces, 7, 8}

\* what split("\n") makes of the output of rev-list: one line at least
Stdouts ==
  {<<a>> : a \in StdoutLines}
    \cup {<<a, b>> : a \in StdoutLines, b \in StdoutLines}
    \cup {<<a, b, c>> : a \in StdoutLines, b \in StdoutLines, c \in StdoutLines}

\* a driver and no command run yet
InitGit ==
  /\ config = [merge_commits |-> "skip", trigger_label |-> NoLabel,
               branch_map |-> CHOOSE b \in BranchMaps : TRUE,
               upstream_repo |-> "acme/up"]
  /\ pc = "git"
  /\ mainpr = NoPull
  /\ target = ""
  /\ commitShas = <<>>
  /\ strategy = ""
  /\ facts = NoFacts
  /\ commitShasToCherryPick = <<>>
  /\ mergeCommitShas = <<>>
  /\ successByTarget = <<>>
  /\ message = Body("", "")
  /\ calls = <<>>
  /\ comments = <<>>
  /\ outputs = <<>>
  /\ failed = <<>>
  /\ unhandled = 0

\* git.fetch(ref, pwd, depth, remote)
DriveFetch ==
  /\ pc = "git"
  /\ \E ref \in FetchRefs : \E depth \in FetchDepths : \E remote \in Remotes :
     \E code \in GitExitCodes :
       calls' = Append(calls,
         Exec("fetch", <<ref, depth, remote>>, GitFetch(code), code, <<>>))
  /\ pc' = "done"
  /\ UNCHANGED <<config, mainpr, target, commitShas, strategy, facts,
                 commitShasToCherryPick, mergeCommitShas, successByTarget,
                 message, comments, outputs, failed, unhandled>>

\* git.cherryPick(commitShas, pwd)
DriveCherryPick ==
  /\ pc = "git"
  /\ \E shas \in ShaLists : \E code \in GitExitCodes :
     \E abortCode \in GitExitCodes :
       calls' = calls \o GitCherryPick(shas, code, abortCode)
  /\ pc' = "done"
  /\ UNCHANGED <<config, mainpr, target, commitShas, strategy, facts,
                 commitShasToCherryPick, mergeCommitShas, successByTarget,
                 message, comments, outputs, failed, unhandled>>

\* mergeCommitShas = await git.findMergeCommits(commitShas, pwd)
DriveFindMergeCommits ==
  /\ pc = "git"
  /\ \E shas \in ShaLists : \E code \in GitExitCodes : \E stdout \in Stdouts :
       /\ calls' = Append(calls,
            Exec("findMergeCommits", shas, GitRun(code), code, stdout))
       /\ mergeCommitShas' =
            IF GitRun(code) = "ok" THEN findMergeCommits(stdout)
            ELSE mergeCommitShas
  /\ pc' = "done"
  /\ UNCHANGED <<config, mainpr, target, commitShas, strategy, facts,
                 commitShasToCherryPick, successByTarget, message, comments,
                 outputs, failed, unhandled>>

NextGit ==
  \/ DriveFetch
  \/ DriveCherryPick
  \/ DriveFindMergeCommits

SpecGit == InitGit /\ [][NextGit]_vars

\* --------------------------------------------- replacePlaceholders on its own
\* A template is the sequence of its pieces; a placeholder is one piece.
MaxTemplateLen == 3

KnownTokens ==
  {"${pull_author}", "${pull_number}", "${pull_title}", "${pull_description}",
   "${target_branch}", "${repo}", "${owner}"}

TemplatePieces == KnownTokens \cup {"${issue_refs}", "${abc}", "some text"}

Templates ==
  UNION {[1..n -> TemplatePieces] : n \in 0..MaxTemplateLen}

\* pull requests handed to replacePlaceholders; body is <<>> for null
TemplatePulls ==
  {[user |-> [login |-> "alice"], number |-> PullNumber, title |-> "Fix it",
    body |-> <<>>],
   [user |-> [login |-> "bob"], number |-> PullNumber,
    title |-> "${target_branch}", body |-> <<"${owner}">>],
   [user |-> [login |-> "carol"], number |-> PullNumber, title |-> "$&",
    body |-> <<"${repo}">>],
   [user |-> [login |-> "dave"], number |-> PullNumber, title |-> "Fix it",
    body |-> <<"This body refers to #123 and foo/bar#456">>]}

Owners == {"", "acme"}

\* what String.prototype.replace inserts for a replacement string: $& is
\* the matched text and $$ a dollar sign
Expand(value, matched) ==
  CASE value = "$&" -> matched
    [] value = "$$" -> "$"
    [] OTHER -> value

\* a text of one piece; the empty string has no piece
Piece(str) == IF str = "" THEN <<>> ELSE <<str>>

\* replace that puts the value in front when the pattern is not found
ReplaceFirst_Always(text, pattern, value) ==
  IF pattern \in Range(text)
  THEN LET k == CHOOSE i \in 1..Len(text) :
                  text[i] = pattern /\ \A j \in 1..(i - 1) : text[j] # pattern
       IN SubSeq(text, 1, k - 1) \o Piece(Expand(value, pattern))
            \o SubSeq(text, k + 1, Len(text))
  ELSE Piece(value) \o text

\* text.replace(pattern, value) with a string pattern: the first occurrence
\* only
ReplaceFirst(text, pattern, value) ==
  IF pattern \in Range(text)
  THEN LET k == CHOOSE i \in 1..Len(text) :
                  text[i] = pattern /\ \A j \in 1..(i - 1) : text[j] # pattern
       IN SubSeq(text, 1, k - 1) \o Piece(Expand(value, pattern))
            \o SubSeq(text, k + 1, Len(text))
  ELSE text

\* main.body ?? ""
BodyOrEmpty(main) == IF main.body = <<>> THEN "" ELSE main.body[1]

replacePlaceholders(template, main, tgt, owner, repo) ==
  ReplaceFirst(
    ReplaceFirst(
      ReplaceFirst(
        ReplaceFirst(
          ReplaceFirst(
            ReplaceFirst(
              ReplaceFirst(template, "${pull_author}", main.user.login),
              "${pull_number}", Str(main.number)),
            "${pull_title}", main.title),
          "${pull_description}", BodyOrEmpty(main)),
        "${target_branch}", tgt),
      "${repo}", repo),
    "${owner}", owner)

\* no template evaluated yet
InitTemplate ==
  /\ config = [merge_commits |-> "skip", trigger_label |-> NoLabel,
               branch_map |-> CHOOSE b \in BranchMaps : TRUE,
               upstream_repo |-> "acme/up"]
  /\ pc = "template"
  /\ mainpr = NoPull
  /\ target = ""
  /\ commitShas = <<>>
  /\ strategy = ""
  /\ facts = NoFacts
  /\ commitShasToCherryPick = <<>>
  /\ mergeCommitShas = <<>>
  /\ successByTarget = <<>>
  /\ message = Body("", "")
  /\ calls = <<>>
  /\ comments = <<>>
  /\ outputs = <<>>
  /\ failed = <<>>
  /\ unhandled = 0

\* utils.replacePlaceholders(template, main, target, owner, repo)
EvaluateTemplate ==
  /\ pc = "template"
  /\ \E template \in Templates : \E main \in TemplatePulls :
     \E owner \in Owners :
       calls' = Append(calls,
         Call("replacePlaceholders",
              [template |-> template, main |-> main, target |-> "main",
               owner |-> owner, repo |-> "up"],
              replacePlaceholders(template, main, "main", owner, "up")))
  /\ pc' = "done"
  /\ UNCHANGED <<config, mainpr, target, commitShas, strategy, facts,
                 commitShasToCherryPick, mergeCommitShas, successByTarget,
                 message, comments, outputs, failed, unhandled>>

NextTemplate == EvaluateTemplate

SpecTemplate == InitTemplate /\ [][NextTemplate]_vars

\* ------------------------------------------------------------------ texts
\* A text is the sequence of its pieces: the literal parts of a template
\* string and the values interpolated into it.
Token == "TOKEN"

ShaText(shas) == [i \in 1..Len(shas) |-> Str(shas[i])]

\* 'cherry-pick-${pull_number}-to-${target}-to-${upstream_name}'
BranchText(b) == <<b[1], "-", Str(b[2]), "-to-", b[3], "-to-", b[4]>>

\* 'https://${this.token}@github.com/${repo}'
RemoteUrl(repo) == <<"https://", Token, "@github.com/", repo>>

\* '${commitShas[0]}^..${commitShas[commitShas.length - 1]}'
RevListRange(shas) == <<Str(shas[1]), "^..", Str(shas[Len(shas)])>>

\* the command and arguments a driver method hands to Git.git
CommandLine(c) ==
  CASE c.op = "fetch" ->
         <<"fetch", "--depth=", Str(c.arg[2]), c.arg[3], c.arg[1]>>
    [] c.op = "findMergeCommits" ->
         <<"rev-list", "--merges">> \o RevListRange(c.arg)
    [] c.op = "add_remote" ->
         <<"remote", "add", c.arg[2]>> \o RemoteUrl(c.arg[1])
    [] c.op = "checkout" ->
         <<"switch", "-c">> \o BranchText(c.arg[1]) \o <<c.arg[3], "/", c.arg[2]>>
    [] c.op = "cherryPick" -> <<"cherry-pick", "-x">> \o ShaText(c.arg)
    [] c.op = "cherryPickAbort" -> <<"cherry-pick", "--abort">>
    [] c.op = "push" ->
         <<"push", "--set-upstream", c.arg[2]>> \o BranchText(c.arg[1])
    [] OTHER -> <<>>

\* console.log('git ${command} ${args.join(" ")}')
LogLine(c) == <<"git">> \o CommandLine(c)

FailedWith(c) == <<"' failed with exit code ", Str(c.exitCode)>>

\* the add_remote message built from remote_url instead of repo
ErrorMessage_RemoteUrl(c) ==
  <<"'git remote add ", c.arg[2]>> \o RemoteUrl(c.arg[1]) \o FailedWith(c)

\* message of the Error a driver method raises for the command it ran
ErrorMessage(c) ==
  CASE c.op = "fetch" /\ c.exitCode = RefNotFoundExit ->
         <<"Expected to fetch '", c.arg[1], "', but couldn't find it">>
    [] c.op = "fetch" /\ c.exitCode # RefNotFoundExit ->
         <<"'git fetch origin ", c.arg[1]>> \o FailedWith(c)
    [] c.op = "findMergeCommits" ->
         <<"'git rev-list --merges ">> \o RevListRange(c.arg) \o FailedWith(c)
    [] c.op = "add_remote" ->
         <<"'git remote add ", c.arg[2], c.arg[1]>> \o FailedWith(c)
    [] c.op = "checkout" ->
         <<"'git switch -c ">> \o BranchText(c.arg[1])
           \o <<c.arg[3], "/", c.arg[2]>> \o FailedWith(c)
    [] c.op = "cherryPick" ->
         <<"'git cherry-pick -x ">> \o ShaText(c.arg) \o FailedWith(c)
    [] c.op = "push" ->
         <<"'git push --set-upstream ", c.arg[2]>> \o BranchText(c.arg[1])
           \o FailedWith(c)
    [] OTHER -> <<>>

\* the error a driver method raises for the command it ran; only a
\* GitRefNotFoundError has a ref
Raised(c) ==
  [name |-> c.res, message |-> ErrorMessage(c),
   ref |-> IF c.res = "GitRefNotFoundError" THEN c.arg[1] ELSE ""]

\* message of an error raised by the client of the host; its text is not
\* written by this repository
HostErrorMessage == <<"request failed">>

\* error.message for the operation an error comment names
ErrorText(op) ==
  IF \E i \in 1..Len(calls) : calls[i].op = op /\ calls[i].exitCode # 0
  THEN ErrorMessage(calls[CHOOSE i \in 1..Len(calls) :
                            calls[i].op = op /\ calls[i].exitCode # 0])
  ELSE HostErrorMessage

\* reasons[exitcode] ?? "due to an unknown script error"
ReasonText(exitcode) ==
  CASE exitcode = ReasonNewBranch ->
         "because it was unable to create a new branch"
    [] exitcode = ReasonCherryPick ->
         "because it was unable to cherry-pick the commit(s)"
    [] OTHER -> "due to an unknown script error"

\* the commands a reader is told to run by hand
Suggestion(exitcode) ==
  IF exitcode <= ReasonCherryPick
  THEN <<"git remote add ", upstream_name, " https://github.com/",
         config.upstream_repo, "git fetch ", upstream_name, " ", target,
         "git worktree add -d .worktree/">> \o BranchText(branchname)
         \o <<" ", upstream_name, "/", target, "cd .worktree/">>
         \o BranchText(branchname) \o <<"git checkout -b ">>
         \o BranchText(branchname)
         \o <<"ancref=$(git merge-base ", "baseref", " ", "headref", ")",
               "git cherry-pick -x $ancref..", "headref">>
  ELSE <<"Note that rebase and squash merges are not supported at this time.">>

\* composeMessageForCherryPickScriptFailure
ScriptFailureText(exitcode) ==
  <<"Cherry-pick failed for '", target, "', ", ReasonText(exitcode), ".",
    "Please cherry-pick the changes locally.">> \o Suggestion(exitcode)

\* the body of a comment, as createComment receives it
CommentText(body) ==
  CASE body.kind = "not_merged" ->
         <<"Only merged pull requests can be cherry-picked.">>
    [] body.kind = "merge_commits" ->
         <<"Cherry-pick failed because this pull request contains merge commits.">>
    [] body.kind = "error" -> ErrorText(body.arg)
    [] body.kind = "fetch_target" ->
         <<"Cherry-pick failed for '", body.arg, "': couldn't find remote ref '",
           body.arg, "'. Please ensure that this Github repo has a branch named '",
           body.arg, "'.">>
    [] body.kind = "script_failure" -> ScriptFailureText(body.arg)
    [] body.kind = "push_failure" ->
         <<"git push to ", upstream_name, " failed for ", target,
           " with exitcode ", Str(body.arg)>>
    [] body.kind = "create_pr_failed" ->
         <<"Cherry-pick branch created but failed to create PR.",
           "Request to create PR rejected with status ", Str(body.arg)>>
    [] body.kind = "success" ->
         <<"Successfully created cherry-pick PR for '", target,
           "': - https://github.com/", config.upstream_repo, "/pull/",
           Str(body.arg)>>
    [] OTHER -> <<>>

\* ------------------------------------------------------------ properties
CallsOf(op) == {i \in 1..Len(calls) : calls[i].op = op}

Invoked(op) == CallsOf(op) # {}

Returned(op, res) == \E i \in CallsOf(op) : calls[i].res = res

CherryPickArgs == {calls[i].arg : i \in CallsOf("cherryPick")}

GitOps ==
  {"fetch", "add_remote", "checkout", "cherryPick", "cherryPickAbort", "push",
   "findMergeCommits", "findCommitsInRange"}

OutputHas(k, v) ==
  \E o \in 1..Len(outputs) :
    \E e \in 1..Len(outputs[o].was_successful_by_target) :
      outputs[o].was_successful_by_target[e] =
        <<k, "=", IF v THEN "true" ELSE "false">>

FailureKinds ==
  {"merge_commits", "error", "fetch_target", "script_failure", "push_failure",
   "create_pr_failed"}

Posted(kinds) ==
  \E i \in 1..Len(comments) :
    comments[i].status = "posted" /\ comments[i].body.kind \in kinds

RunEnded ==
  pc = "done" /\ \A i \in 1..Len(comments) : comments[i].status # "pending"

SubStep(c) ==
  \/ c.op \in {"checkout", "cherryPick", "push", "createPR"}
  \/ (c.op = "fetch" /\ c.arg[1] = target)

Failure(c) == c.res \in {"Error", "GitRefNotFoundError", "rejected"}

Pos(s, x) == CHOOSE k \in 1..Len(s) : s[k] = x

\* C1: once a per-target sub-step (target fetch, branch creation,
\* cherry-pick, push, pull-request creation) has failed, no later sub-step
\* for that target is invoked in the same run.
C1_NoSubStepAfterFailure ==
  \A i \in 1..Len(calls) : \A j \in 1..Len(calls) :
    (i < j /\ SubStep(calls[i]) /\ Failure(calls[i])) => ~SubStep(calls[j])

\* C2: with policy 'fail' and at least one merge commit reported by
\* findMergeCommits, cherryPick is never invoked and the emitted outcome of
\* the resolved target is false.
C2_PolicyFailEmitsFalse ==
  (pc = "done" /\ config.merge_commits = "fail" /\ Len(mergeCommitShas) > 0)
    => (~Invoked("cherryPick") /\ OutputHas(target, FALSE))

\* C3: at the end of a run a failure comment has been posted iff the output
\* records target=false, and a success comment iff it records target=true.
C3_CommentsAgreeWithOutput ==
  RunEnded =>
    /\ Posted(FailureKinds) <=> OutputHas(target, FALSE)
    /\ Posted({"success"}) <=> OutputHas(target, TRUE)

AnyError ==
  \/ \E i \in 1..Len(calls) : calls[i].res \in {"Error", "GitRefNotFoundError"}
  \/ \E i \in 1..Len(comments) : comments[i].status = "rejected"

\* C4: every error raised by a collaborator call, createComment included,
\* reaches the top-level handler, marks the run failed, and never escapes
\* run() as an unhandled rejection.
C4_ErrorsReachTopLevel ==
  RunEnded => ((AnyError => failed # <<>>) /\ unhandled = 0)

\* C5: when isMerged returns false, no git operation and no createPR is
\* invoked, no output is emitted, the run is not marked failed, and the
\* not-merged comment is issued at most once.
C5_NotMergedNoAttempt ==
  Returned("isMerged", "false") =>
    /\ \A i \in 1..Len(calls) : calls[i].op \notin GitOps \cup {"createPR"}
    /\ outputs = <<>>
    /\ failed = <<>>
    /\ Cardinality({i \in 1..Len(comments) :
                      comments[i].body.kind = "not_merged"}) <= 1

C5_Witness ==
  /\ Returned("isMerged", "false")
  /\ pc = "done"
  /\ Posted({"not_merged"})

LacksLabel ==
  /\ mainpr.number # 0
  /\ config.trigger_label # NoLabel
  /\ config.trigger_label \notin mainpr.labels

NoSideEffects ==
  ~Invoked("fetch") /\ comments = <<>> /\ outputs = <<>>

\* C6 as stated: with a trigger label configured, a pull request lacking the
\* label produces no fetch, no comment and no output entries.
C6_LabelGateSilent == LacksLabel => NoSideEffects

\* C6 amended: with a trigger label configured, a merged pull request
\* (isMerged returned true) lacking the label produces no fetch, no comment
\* and no output entries.
C6_MergedLabelGateSilent ==
  (LacksLabel /\ Returned("isMerged", "true")) => NoSideEffects

C6_Witness ==
  LacksLabel /\ Returned("isMerged", "true") /\ pc = "done"

KeepsNonMerges(a) ==
  /\ Range(a) = Range(commitShas) \ Range(mergeCommitShas)
  /\ Len(a) = Cardinality(Range(a))
  /\ \A i \in 1..Len(a) : \A j \in 1..Len(a) :
       i < j => Pos(commitShas, a[i]) < Pos(commitShas, a[j])

\* C7: with policy 'skip' and at least one merge commit detected, the list
\* passed to cherryPick is the commit list of the pull request without the
\* detected merge commits, the others in their original relative order.
C7_SkipRemovesMerges ==
  (config.merge_commits = "skip" /\ Len(mergeCommitShas) > 0)
    => \A a \in CherryPickArgs : KeepsNonMerges(a)

C7_Witness ==
  /\ config.merge_commits = "skip"
  /\ Len(commitShas) = 5
  /\ Len(mergeCommitShas) = 2
  /\ \E a \in CherryPickArgs : Len(a) = 3

\* C8: whenever the strategy is Squashed and cherryPick is invoked, the list
\* passed to it is the merge-commit hash alone, under both policies and
\* whether or not merge commits were detected.
C8_SquashedPicksMergeCommit ==
  strategy = "SQUASHED"
    => \A a \in CherryPickArgs : a = <<getMergeCommitSha(mainpr)>>

\* C9: whenever the strategy is Rebased and cherryPick is invoked, the list
\* passed to it is the range of N commits ending at the merge-commit hash,
\* oldest first, N being the reported commit count.
C9_RebasedPicksRange ==
  strategy = "REBASED"
    => \A a \in CherryPickArgs :
         /\ Len(a) = mainpr.commits
         /\ \A i \in 1..Len(a) :
              a[i] = getMergeCommitSha(mainpr) - mainpr.commits + i

\* C10: for MergeCommit and Unknown, when no merge-commit filtering applies,
\* the list passed to cherryPick is the commit list the host lists for the
\* pull request, in listed order, and as long as the reported commit count.
C10_OwnCommitsUnmodified ==
  (strategy \in {"MERGECOMMIT", "UNKNOWN"} /\ Len(mergeCommitShas) = 0)
    => \A a \in CherryPickArgs :
         a = HostCommits(mainpr) /\ Len(a) = mainpr.commits

C10_Witness ==
  /\ strategy \in {"MERGECOMMIT", "UNKNOWN"}
  /\ Len(mergeCommitShas) = 0
  /\ mainpr.commits > 1
  /\ Returned("cherryPick", "ok")

TreatedAsSquashedOrRebased ==
  \/ Invoked("findCommitsInRange")
  \/ \E i \in CallsOf("fetch") : calls[i].arg[1] = "merge_commit"

\* C12: a merge commit with more than one parent makes the strategy
\* MergeCommit whatever the association check reports, and the switch then
\* selects the commit list of the pull request; under MergeCommit neither
\* the Squashed nor the Rebased case runs, and the list cherryPick receives
\* is that commit list when no merge-commit filtering applies.
C12_MultiParentIsMergeCommit ==
  /\ facts.parents > 1 =>
       /\ strategy = "MERGECOMMIT"
       /\ pc = "findMergeCommits"
       /\ commitShasToCherryPick = HostCommits(mainpr)
  /\ strategy = "MERGECOMMIT" =>
       /\ ~TreatedAsSquashedOrRebased
       /\ Len(mergeCommitShas) = 0 =>
            \A a \in CherryPickArgs : a = HostCommits(mainpr)

C12_Witness ==
  /\ facts.parents = 2
  /\ ~facts.parentAssoc
  /\ mainpr.commits > 1
  /\ commitShasToCherryPick = HostCommits(mainpr)

\* a finished run of a merged, labelled pull request without merge commits
\* in which every call and every createComment succeeded
HappyRun ==
  /\ RunEnded
  /\ Returned("isMerged", "true")
  /\ config.trigger_label \in mainpr.labels
  /\ Invoked("findMergeCommits")
  /\ mergeCommitShas = <<>>
  /\ \A i \in 1..Len(calls) : calls[i].res \in {"ok", "true", "created"}
  /\ \A i \in 1..Len(comments) : comments[i].status = "posted"

\* the operations called after the merge-commit scan, in order
OpsAfterScan ==
  LET k == CHOOSE i \in CallsOf("findMergeCommits") : TRUE
  IN  [i \in 1..(Len(calls) - k) |-> calls[k + i].op]

\* C13: in a run of a merged, labelled pull request without merge commits
\* where every call succeeds, the steps are add_remote, the target fetches,
\* checkout, cherryPick, push, createPR, requestReviewers and then the
\* success comment; the output is '<target>=true' with was_successful true;
\* the only comment is the posted success comment with the new PR number.
C13_HappyPathOrder ==
  /\ (\E i \in 1..Len(comments) : comments[i].body.kind = "success")
       => Invoked("requestReviewers")
  /\ HappyRun =>
       /\ OpsAfterScan = <<"add_remote", "fetch", "fetch", "checkout",
                           "cherryPick", "push", "createPR",
                           "requestReviewers">>
       /\ \A i \in CallsOf("fetch") :
            calls[i].arg[3] = upstream_name => calls[i].arg[1] = target
       /\ outputs = <<[was_successful |-> TRUE,
                       was_successful_by_target |->
                         <<<<target, "=", "true">>>>]>>
       /\ comments = <<[body |-> Body("success", NewPrNumber),
                        awaited |-> TRUE, status |-> "posted"]>>
       /\ failed = <<>>

C13_Witness == HappyRun /\ mainpr.commits > 1

\* C14: createOutput emits was_successful true exactly when no entry of the
\* map is false, and was_successful_by_target as one line '<target>=true' or
\* '<target>=false' per entry, in the insertion order of the map.
C14_OutputOfMap ==
  \A o \in 1..Len(outputs) :
    /\ outputs[o].was_successful
         = (\A i \in 1..Len(successByTarget) : successByTarget[i].val)
    /\ Len(outputs[o].was_successful_by_target) = Len(successByTarget)
    /\ \A i \in 1..Len(successByTarget) :
         /\ outputs[o].was_successful_by_target[i][1] = successByTarget[i].key
         /\ outputs[o].was_successful_by_target[i][2] = "="
         /\ outputs[o].was_successful_by_target[i][3]
              = (IF successByTarget[i].val THEN "true" ELSE "false")

C14_Witness ==
  /\ Len(outputs) = 1
  /\ Len(successByTarget) = 3
  /\ successByTarget[1].val
  /\ ~successByTarget[2].val
  /\ ~outputs[1].was_successful

\* the name the claim spells: cherry-pick-{prNumber}-to-{target}-to-upstream
NameFor(prNumber, resolved) == <<"cherry-pick", prNumber, resolved, "upstream">>

\* every branch name a run hands to checkout, push and createPR
BranchNamesUsed ==
  {calls[i].arg[1] : i \in CallsOf("checkout") \cup CallsOf("push")}
    \cup {calls[i].arg.head : i \in CallsOf("createPR")}

PushOrCreateRejected ==
  \/ Returned("push", "Error")
  \/ Returned("createPR", "Error")
  \/ Returned("createPR", "rejected")

NoCommentRejected ==
  \A i \in 1..Len(comments) : comments[i].status # "rejected"

LastCommentPosted ==
  comments # <<>> /\ comments[Len(comments)].status = "posted"

QuietFailure ==
  /\ OutputHas(target, FALSE)
  /\ ~OutputHas(target, TRUE)
  /\ Posted(FailureKinds)
  /\ failed = <<>>
  /\ unhandled = 0

\* C15 as stated: every run names its working branch
\* cherry-pick-{prNumber}-to-{target}-to-upstream from the PR number and the
\* resolved target alone, and a run whose push or pull-request creation is
\* rejected ends with the output target=false and a comment, not marked
\* failed and without an unhandled error.
C15_SameBranchRejectedQuietly ==
  /\ \A b \in BranchNamesUsed : b = NameFor(mainpr.number, target)
  /\ (RunEnded /\ PushOrCreateRejected) => QuietFailure

\* C15 amended: the same, for the runs in which the host accepts the last
\* createComment that reports the rejection; when it rejects it the run is
\* marked failed and emits no output.
C15_SameBranchRejectedReported ==
  /\ \A b \in BranchNamesUsed : b = NameFor(mainpr.number, target)
  /\ (RunEnded /\ PushOrCreateRejected /\ LastCommentPosted) => QuietFailure
  /\ (RunEnded /\ PushOrCreateRejected /\ ~LastCommentPosted)
       => (failed # <<>> /\ outputs = <<>>)

C15_Witness ==
  /\ RunEnded
  /\ Returned("createPR", "rejected")
  /\ LastCommentPosted
  /\ mainpr.base_ref # target

TargetFetch(c) == c.op = "fetch" /\ c.arg[1] = target

\* the target fetches and every later call of the attempt succeeded
LaterStepsSucceed ==
  /\ \A i \in 1..Len(calls) :
       (TargetFetch(calls[i])
          \/ calls[i].op \in {"checkout", "cherryPick", "push", "requestReviewers"})
         => calls[i].res \notin {"Error", "GitRefNotFoundError"}
  /\ \A i \in CallsOf("createPR") : calls[i].res = "created"

AddRemoteOvercome ==
  /\ \E i \in 1..Len(calls) : TargetFetch(calls[i])
  /\ LaterStepsSucceed =>
       /\ Returned("createPR", "created")
       /\ OutputHas(target, TRUE)
       /\ ~OutputHas(target, FALSE)
       /\ failed = <<>>

TargetFetchReturned(res) ==
  \E i \in 1..Len(calls) : TargetFetch(calls[i]) /\ calls[i].res = res

\* C17: when a target fetch reports the ref as not found and every
\* createComment is accepted, a comment naming the missing branch is posted
\* and the run ends with an output that records target=false.
C17_RefNotFoundEmitsFalse ==
  (RunEnded /\ TargetFetchReturned("GitRefNotFoundError") /\ NoCommentRejected)
    => /\ \E i \in 1..Len(comments) :
            /\ comments[i].status = "posted"
            /\ comments[i].body = Body("fetch_target", target)
       /\ OutputHas(target, FALSE)
       /\ ~OutputHas(target, TRUE)

SubStepFailed ==
  \E i \in 1..Len(calls) : SubStep(calls[i]) /\ Failure(calls[i])

LaterSubStepFailed ==
  \E i \in 1..Len(calls) :
    /\ calls[i].op \in {"checkout", "cherryPick", "push", "createPR"}
    /\ Failure(calls[i])

Finalized == outputs # <<>> /\ failed = <<>>

C19_PushNeverThrows == ~Returned("push", "Error")

BranchOrPickOrPushFailed ==
  \/ Returned("checkout", "Error")
  \/ Returned("cherryPick", "Error")
  \/ Returned("push", "Error")

EndsAsTargetFailure ==
  /\ ~Invoked("createPR")
  /\ Posted(FailureKinds)
  /\ Len(outputs) = 1
  /\ OutputHas(target, FALSE)
  /\ ~outputs[1].was_successful
  /\ failed = <<>>

\* C20 as stated: a run in which checkout, cherryPick or push failed ends
\* with createPR never invoked, a failure comment posted, the outputs
\* emitted with target=false and was_successful=false, and not marked failed.
C20_FailureEndsRun ==
  (RunEnded /\ BranchOrPickOrPushFailed) => EndsAsTargetFailure

\* C20 amended: the same, for the runs in which the host accepts the last
\* createComment that reports the failure; when it rejects it, createPR is
\* still never invoked but the run is marked failed and emits no output.
C20_FailureEndsRunReported ==
  /\ (RunEnded /\ BranchOrPickOrPushFailed /\ LastCommentPosted)
       => EndsAsTargetFailure
  /\ (RunEnded /\ BranchOrPickOrPushFailed /\ ~LastCommentPosted)
       => (~Invoked("createPR") /\ failed # <<>> /\ outputs = <<>>)

C20_Witness ==
  /\ RunEnded
  /\ Returned("push", "Error")
  /\ LastCommentPosted
  /\ OutputHas(target, FALSE)

NoSuccessComment ==
  \A i \in 1..Len(comments) : comments[i].body.kind # "success"

\* the posted comment of a rejected createPR carries the response status
StatusCommentPosted ==
  \E i \in 1..Len(comments) : \E status \in HttpStatuses \ {Created} :
    /\ comments[i].status = "posted"
    /\ comments[i].body.kind = "create_pr_failed"
    /\ comments[i].body.arg = status

CreatePRRejectedHandled ==
  /\ OutputHas(target, FALSE)
  /\ ~OutputHas(target, TRUE)
  /\ StatusCommentPosted
  /\ ~Invoked("requestReviewers")
  /\ NoSuccessComment

ReviewersFailed ==
  Returned("requestReviewers", "rejected") \/ Returned("requestReviewers", "Error")

\* C22: when requestReviewers answers a status other than 201 or raises,
\* and every createComment is accepted, the success comment is posted and
\* the emitted outcome of the target is true.
C22_ReviewersNonFatal ==
  (RunEnded /\ ReviewersFailed /\ NoCommentRejected)
    => /\ Posted({"success"})
       /\ OutputHas(target, TRUE)
       /\ ~OutputHas(target, FALSE)

\* the logins the source pull request names: its merger and its reviewers
NamedLogins(pull) ==
  (IF pull.merged_by = "" THEN {} ELSE {pull.merged_by})
    \cup Range(pull.requested_reviewers)

\* C23: the list handed to requestReviewers holds the merger, when there is
\* one, and every requested reviewer of the source pull request, each login
\* exactly once.
C23_ReviewersDeduplicated ==
  \A i \in CallsOf("requestReviewers") :
    /\ Range(calls[i].arg.reviewers) = NamedLogins(mainpr)
    /\ Len(calls[i].arg.reviewers) = Cardinality(NamedLogins(mainpr))

\* C24: no comment handed to createComment holds the token, the comment of
\* an add_remote failure and the recipes of the branch-creation and
\* cherry-pick failures included; the recipes name the upstream repository
\* as https://github.com/{upstream_repo}.
C24_NoTokenInComments ==
  \A i \in 1..Len(comments) :
    /\ Token \notin Range(CommentText(comments[i].body))
    /\ comments[i].body.kind = "script_failure" =>
         \E k \in 1..Len(CommentText(comments[i].body)) - 1 :
           /\ CommentText(comments[i].body)[k] = " https://github.com/"
           /\ CommentText(comments[i].body)[k + 1] = config.upstream_repo

C24_Witness ==
  /\ RunEnded
  /\ \E i \in 1..Len(comments) :
       /\ comments[i].status = "posted"
       /\ comments[i].body.kind = "error"
       /\ comments[i].body.arg = "add_remote"
  /\ Posted({"script_failure"})

\* C25: no line the driver writes to the log for a git command holds the
\* token.
C25_NoTokenInLog ==
  \A i \in 1..Len(calls) :
    calls[i].op \in GitOps => Token \notin Range(LogLine(calls[i]))

\* C26: Git.fetch returns normally on exit status 0, raises a
\* GitRefNotFoundError carrying the requested ref on 128 and a plain Error on
\* every other status; it ends in no other way.
C26_FetchOutcomes ==
  \A i \in CallsOf("fetch") :
    /\ calls[i].res \in {"ok", "GitRefNotFoundError", "Error"}
    /\ calls[i].res = "ok" <=> calls[i].exitCode = 0
    /\ calls[i].res = "GitRefNotFoundError" <=> calls[i].exitCode = RefNotFoundExit
    /\ calls[i].res = "GitRefNotFoundError" =>
         /\ Raised(calls[i]).ref = calls[i].arg[1]
         /\ calls[i].arg[1] \in Range(Raised(calls[i]).message)

C26_Witness ==
  /\ \E i \in CallsOf("fetch") :
       calls[i].exitCode = RefNotFoundExit /\ calls[i].res = "GitRefNotFoundError"
  /\ pc = "done"

\* C27: Git.cherryPick runs one cherry-pick -x of the hashes in the order
\* given; when it has raised, the command ended non-zero, cherry-pick --abort
\* was run right after it, and the Error names the failed command; however
\* the abort ends nothing is raised for it; when the command ended 0 there
\* is no abort.
C27_AbortThenRaise ==
  /\ \A i \in CallsOf("cherryPick") :
       /\ LogLine(calls[i]) = <<"git", "cherry-pick", "-x">> \o ShaText(calls[i].arg)
       /\ calls[i].res = "Error" <=> calls[i].exitCode # 0
       /\ calls[i].res = "Error" =>
            /\ i < Len(calls)
            /\ calls[i + 1].op = "cherryPickAbort"
            /\ LogLine(calls[i + 1]) = <<"git", "cherry-pick", "--abort">>
            /\ Raised(calls[i]).message =
                 <<"'git cherry-pick -x ">> \o ShaText(calls[i].arg)
                   \o <<"' failed with exit code ", Str(calls[i].exitCode)>>
       /\ calls[i].res = "ok" =>
            (i < Len(calls) => calls[i + 1].op # "cherryPickAbort")
  /\ \A j \in CallsOf("cherryPickAbort") :
       /\ calls[j].res \in {"ok", "ignored"}
       /\ j > 1 /\ calls[j - 1].op = "cherryPick" /\ calls[j - 1].res = "Error"

C27_Witness ==
  \E j \in CallsOf("cherryPickAbort") :
    /\ calls[j].exitCode # 0
    /\ Len(calls[j - 1].arg) > 1
    /\ calls[j - 1].arg[1] > calls[j - 1].arg[2]

\* C28: Git.findMergeCommits asks rev-list --merges for the range
\* <first>^..<last> of the list it is given, raises an Error when the command
\* ends non-zero, and otherwise returns the non-blank lines of the output,
\* all of them, in their order: the empty list when there is none.
NonBlankLines(stdout) == {k \in 1..Len(stdout) : stdout[k] \notin {Blank, Spaces}}

C28_MergeCommitsFound ==
  \A i \in CallsOf("findMergeCommits") :
    /\ CommandLine(calls[i]) =
         <<"rev-list", "--merges", Str(calls[i].arg[1]), "^..",
           Str(calls[i].arg[Len(calls[i].arg)])>>
    /\ calls[i].res = "Error" <=> calls[i].exitCode # 0
    /\ (pc = "done" /\ calls[i].res = "ok") =>
         /\ Len(mergeCommitShas) = Cardinality(NonBlankLines(calls[i].stdout))
         /\ \A k \in NonBlankLines(calls[i].stdout) :
              mergeCommitShas[Cardinality(
                {j \in NonBlankLines(calls[i].stdout) : j <= k})] =
                calls[i].stdout[k]

C28_Witness ==
  /\ pc = "done"
  /\ \E i \in CallsOf("findMergeCommits") :
       /\ calls[i].res = "ok"
       /\ calls[i].stdout = <<8, Spaces, 7>>
       /\ mergeCommitShas = <<8, 7>>

\* the values a call substitutes
ValuesOf(c) ==
  {c.arg.main.user.login, Str(c.arg.main.number), c.arg.main.title,
   BodyOrEmpty(c.arg.main), c.arg.target, c.arg.repo, c.arg.owner}

\* C29: when no value is itself a known token, no known token is left in
\* what replacePlaceholders returns, however often it stood in the template.
C29_EveryTokenSubstituted ==
  \A i \in CallsOf("replacePlaceholders") :
    ValuesOf(calls[i]) \cap KnownTokens = {}
      => Range(calls[i].res) \cap KnownTokens = {}

\* C30: a template without a known token (the empty one, plain text, unknown
\* tokens only) is returned as it was given.
C30_NoKnownTokenUnchanged ==
  \A i \in CallsOf("replacePlaceholders") :
    Range(calls[i].arg.template) \cap KnownTokens = {}
      => calls[i].res = calls[i].arg.template

C30_Witness ==
  \E i \in CallsOf("replacePlaceholders") :
    /\ calls[i].arg.template = <<"some text", "${abc}">>
    /\ calls[i].arg.main.title = "${target_branch}"
    /\ calls[i].res = <<"some text", "${abc}">>

\* the issue references of a body, joined by single spaces
IssueRefsOf(body) ==
  IF body = "This body refers to #123 and foo/bar#456"
  THEN "#123 foo/bar#456"
  ELSE ""

\* C31: a template that is the placeholder ${issue_refs} evaluates to the
\* issue references of the body of the pull request, in their order and
\* joined by single spaces, and to the empty text when the body has none.
C31_IssueRefsSubstituted ==
  \A i \in CallsOf("replacePlaceholders") :
    calls[i].arg.template = <<"${issue_refs}">>
      => calls[i].res = Piece(IssueRefsOf(BodyOrEmpty(calls[i].arg.main)))

\* the value replacePlaceholders is given for a known token
ValueFor(c, token) ==
  CASE token = "${pull_author}" -> c.arg.main.user.login
    [] token = "${pull_number}" -> Str(c.arg.main.number)
    [] token = "${pull_title}" -> c.arg.main.title
    [] token = "${pull_description}" -> BodyOrEmpty(c.arg.main)
    [] token = "${target_branch}" -> c.arg.target
    [] token = "${repo}" -> c.arg.repo
    [] token = "${owner}" -> c.arg.owner

\* C32: substitution is single-pass: a template that is one known token
\* evaluates to the value of that token as it is, also when the value is a
\* token itself.
C32_SinglePass ==
  \A i \in CallsOf("replacePlaceholders") : \A token \in KnownTokens :
    (/\ calls[i].arg.template = <<token>>
     /\ ValueFor(calls[i], token) \notin {"$&", "$$"})
      => calls[i].res = Piece(ValueFor(calls[i], token))

\* the alias of the base branch when the table has one, the base branch
\* otherwise
ResolvedName ==
  IF mainpr.base_ref \in DOMAIN config.branch_map
  THEN config.branch_map[mainpr.base_ref]
  ELSE mainpr.base_ref

\* C33: the target is the alias-table value of the base branch when the
\* table has that key and the base branch otherwise, and that one name is
\* the ref fetched from the upstream remote, the start point of the working
\* branch, the base of the created pull request and the key of the output
\* entry.
C33_OneResolvedTarget ==
  /\ \A i \in CallsOf("fetch") :
       calls[i].arg[3] = upstream_name => calls[i].arg[1] = ResolvedName
  /\ \A i \in CallsOf("checkout") : calls[i].arg[2] = ResolvedName
  /\ \A i \in CallsOf("createPR") : calls[i].arg.base = ResolvedName
  /\ \A o \in 1..Len(outputs) :
       \A e \in 1..Len(outputs[o].was_successful_by_target) :
         outputs[o].was_successful_by_target[e][1] = ResolvedName

C33_Witness ==
  /\ mainpr.base_ref = "master"
  /\ ResolvedName = "main"
  /\ Returned("createPR", "created")
  /\ OutputHas("main", TRUE)

\* C34: cherryPick is never handed a hash that findMergeCommits reported:
\* under policy 'fail' a report ends the run before the cherry-pick, under
\* 'skip' every reported hash is missing from the list.
C34_NoReportedMergePicked ==
  /\ \A a \in CherryPickArgs : Range(a) \cap Range(mergeCommitShas) = {}
  /\ (config.merge_commits = "fail" /\ Len(mergeCommitShas) > 0)
       => ~Invoked("cherryPick")

C34_Witness ==
  /\ config.merge_commits = "skip"
  /\ Len(mergeCommitShas) = MaxMerges
  /\ strategy = "MERGECOMMIT"
  /\ \E a \in CherryPickArgs : Len(a) > 1

\* the createComment requests issued and not yet answered
InFlight == {i \in 1..Len(comments) : comments[i].status = "pending"}

\* C35: no two requests are in flight together, and none is in flight any
\* more when the run has returned: every call is completed before the next
\* one starts or the run ends.
C35_NothingInFlight ==
  /\ Cardinality(InFlight) <= 1
  /\ pc = "done" => InFlight = {}

OncePerRun ==
  {"add_remote", "checkout", "cherryPick", "push", "createPR",
   "requestReviewers"}

\* the per-target operations run at most once, and no git or host call
\* other than createComment follows a failed call of the same operation
NoCallRepeated ==
  /\ \A op \in OncePerRun : Cardinality(CallsOf(op)) <= 1
  /\ \A i \in 1..Len(calls) :
       Failure(calls[i]) =>
         \A j \in (i + 1)..Len(calls) : calls[j].op # calls[i].op

\* C36: there is no retry within a run: add_remote, checkout, cherryPick,
\* push, createPR and requestReviewers are invoked at most once each, and no
\* operation, createComment included, is invoked again after it has failed.
C36_NoRetry ==
  /\ NoCallRepeated
  /\ \A i \in 1..Len(comments) : \A j \in 1..Len(comments) :
       i < j => comments[i].status # "rejected"

\* C36, amended: as above, except that a rejected createComment can be
\* followed by one more createComment, the one of the per-target catch,
\* which posts the message of the error and not the rejected body again.
C36_NoRetryButCatchComment ==
  /\ NoCallRepeated
  /\ \A i \in 1..Len(comments) : \A j \in (i + 1)..Len(comments) :
       comments[i].status = "rejected" =>
         /\ j = i + 1
         /\ j = Len(comments)
         /\ comments[j].body.kind = "error"
         /\ comments[j].body.arg = "createComment"
         /\ comments[i].body.kind # "error"

C36_Witness ==
  /\ RunEnded
  /\ Returned("cherryPick", "Error")
  /\ Returned("add_remote", "Error")
  /\ Len(comments) > 2
  /\ comments[Len(comments) - 1].status = "rejected"
  /\ comments[Len(comments)].status = "posted"

\* C37: outputs are emitted at most once in a run, and a run that emitted
\* outputs is not marked failed nor the other way round; a run ends with
\* outputs, marked failed, or with neither.
C37_OutputsOrFailed ==
  /\ Len(outputs) <= 1
  /\ ~(outputs # <<>> /\ failed # <<>>)

C37_Witness ==
  /\ RunEnded
  /\ failed # <<>>
  /\ successByTarget # <<>>
  /\ Len(comments) > 1
  /\ outputs = <<>>

\* every call of op comes after a call of the step before it that ended res
After(op, before, res) ==
  \A j \in CallsOf(op) :
    \E i \in CallsOf(before) :
      i < j /\ calls[i].res = res /\ calls[i].exitCode = 0

EmittedTrue ==
  \E o \in 1..Len(outputs) :
    \E e \in 1..Len(outputs[o].was_successful_by_target) :
      outputs[o].was_successful_by_target[e][3] = "true"

\* C38: cherryPick is invoked only after checkout succeeded, push only after
\* cherryPick succeeded, createPR only after push ended with status 0, and
\* an emitted target=true means createPR answered 201 in this run.
C38_StepsGated ==
  /\ After("cherryPick", "checkout", "ok")
  /\ After("push", "cherryPick", "ok")
  /\ After("createPR", "push", "ok")
  /\ EmittedTrue => Returned("createPR", "created")

C38_Witness ==
  /\ RunEnded
  /\ EmittedTrue
  /\ Returned("add_remote", "Error")
  /\ Returned("createPR", "created")

EmittedFalse ==
  \E o \in 1..Len(outputs) :
    \E e \in 1..Len(outputs[o].was_successful_by_target) :
      outputs[o].was_successful_by_target[e][3] = "false"

\* C39: an emitted target=false means that no pull request was created
\* upstream in the run, also when an error was raised after createPR had
\* answered 201.
C39_FalseMeansNoPullRequest ==
  EmittedFalse => ~Returned("createPR", "created")

\* C40: emitted outputs hold exactly one entry, keyed by the resolved
\* target, and a comment has been posted on the pull request by then.
C40_OneEntryAfterComment ==
  \A o \in 1..Len(outputs) :
    /\ Len(outputs[o].was_successful_by_target) = 1
    /\ outputs[o].was_successful_by_target[1][1] =
         ResolveTarget(config.branch_map, mainpr.base_ref)
    /\ \E i \in 1..Len(comments) : comments[i].status = "posted"

C40_Witness ==
  /\ RunEnded
  /\ Returned("add_remote", "Error")
  /\ Returned("fetch", "GitRefNotFoundError")
  /\ Returned("checkout", "Error")
  /\ Len(outputs) = 1
  /\ outputs[1].was_successful_by_target = <<<<target, "=", "false">>>>

====
